---- MODULE Spec2Model ----
(***************************************************************************)
(* A model of the histogram crate (src/src/lib.rs): the log-linear bucket  *)
(* geometry, the value <-> index mapping, the saturating counters, the     *)
(* percentile scan, merge and the embedded traversal cursor.               *)
(*                                                                         *)
(* Number representation.  The crate computes on u64 counters and sample   *)
(* values and on f64 intermediates; TLC's integers are 32 bits wide, so    *)
(*   - a u64 is a natural number held as a little-endian sequence of       *)
(*     15-bit limbs without leading zero limbs (<<>> is 0), and            *)
(*   - an f64 is a non-negative dyadic rational [m, e] = m * 2^e whose     *)
(*     mantissa m has at most 53 significant bits; every f64 operation     *)
(*     computes the exact result and rounds it to nearest, ties to even.   *)
(* u32 / usize quantities (bucket counts, indices, bit positions) stay     *)
(* far below 2^31 for every configuration explored and are plain integers. *)
(*                                                                         *)
(* Evaluation.  `CHOOSE out \in { e : x \in {v} } : TRUE` is `e` with x     *)
(* standing for the value of v, computed once (a `let` of the source);     *)
(* the loops of percentile and merge run as repeated passes through their  *)
(* body, split in halves so that the evaluation stays shallow.             *)
(***************************************************************************)
EXTENDS Integers, Sequences, FiniteSets, TLC

(***************************************************************************)
(* Natural numbers of arbitrary size.                                      *)
(***************************************************************************)
Base == 2^15
LimbBits == 15

RECURSIVE Norm(_)
Norm(s) == IF s = <<>> THEN s
           ELSE IF s[Len(s)] = 0 THEN Norm(SubSeq(s, 1, Len(s) - 1)) ELSE s

RECURSIVE BN(_)
BN(n) == IF n = 0 THEN <<>> ELSE <<n % Base>> \o BN(n \div Base)

RECURSIVE ToInt(_)
ToInt(a) == IF a = <<>> THEN 0 ELSE a[1] + Base * ToInt(Tail(a))

Limb(a, i) == IF i <= Len(a) THEN a[i] ELSE 0

RECURSIVE CmpFrom(_, _, _)
CmpFrom(a, b, i) == IF i = 0 THEN 0
                    ELSE IF a[i] < b[i] THEN -1
                    ELSE IF a[i] > b[i] THEN 1
                    ELSE CmpFrom(a, b, i - 1)

Cmp(a, b) == IF Len(a) < Len(b) THEN -1
             ELSE IF Len(a) > Len(b) THEN 1
             ELSE CmpFrom(a, b, Len(a))

Lt(a, b) == Cmp(a, b) < 0
Le(a, b) == Cmp(a, b) <= 0

RECURSIVE AddFrom(_, _, _, _)
AddFrom(a, b, i, c) ==
    IF i > Len(a) /\ i > Len(b)
    THEN (IF c = 0 THEN <<>> ELSE <<c>>)
    ELSE LET s == Limb(a, i) + Limb(b, i) + c
         IN  <<s % Base>> \o AddFrom(a, b, i + 1, s \div Base)

Add(a, b) == AddFrom(a, b, 1, 0)

\* a - b for a >= b
RECURSIVE SubFrom(_, _, _, _)
SubFrom(a, b, i, c) ==
    IF i > Len(a) THEN <<>>
    ELSE LET s == a[i] - Limb(b, i) - c
         IN  IF s < 0 THEN <<s + Base>> \o SubFrom(a, b, i + 1, 1)
                      ELSE <<s>> \o SubFrom(a, b, i + 1, 0)

Sub(a, b) == Norm(SubFrom(a, b, 1, 0))

\* a * k for 0 <= k <= Base
RECURSIVE MulSmallFrom(_, _, _, _)
MulSmallFrom(a, k, i, c) ==
    IF i > Len(a) THEN (IF c = 0 THEN <<>> ELSE <<c>>)
    ELSE LET s == a[i] * k + c
         IN  <<s % Base>> \o MulSmallFrom(a, k, i + 1, s \div Base)

MulSmall(a, k) == IF k = 0 THEN <<>> ELSE MulSmallFrom(a, k, 1, 0)

ShiftLimbs(a, n) == IF a = <<>> THEN a ELSE [i \in 1..n |-> 0] \o a

RECURSIVE MulFrom(_, _, _)
MulFrom(a, b, j) ==
    IF j > Len(b) THEN <<>>
    ELSE Add(ShiftLimbs(MulSmall(a, b[j]), j - 1), MulFrom(a, b, j + 1))

Mul(a, b) == MulFrom(a, b, 1)

\* quotient and remainder of a by 1 <= k <= Base, from the top limb down
RECURSIVE DivSmallFrom(_, _, _, _)
DivSmallFrom(a, k, i, r) ==
    IF i = 0 THEN [q |-> <<>>, r |-> r]
    ELSE LET cur  == r * Base + a[i]
             rest == DivSmallFrom(a, k, i - 1, cur % k)
         IN  [q |-> rest.q \o <<cur \div k>>, r |-> rest.r]

DivSmall(a, k) == LET d == DivSmallFrom(a, k, Len(a), 0)
                  IN  [q |-> Norm(d.q), r |-> d.r]

Shl(a, n) == ShiftLimbs(MulSmall(a, 2^(n % LimbBits)), n \div LimbBits)

Shr(a, n) == IF n \div LimbBits >= Len(a) THEN <<>>
             ELSE DivSmall(SubSeq(a, n \div LimbBits + 1, Len(a)), 2^(n % LimbBits)).q

\* a mod 2^n
LowBits(a, n) == Sub(a, Shl(Shr(a, n), n))

RECURSIVE BitLenInt(_)
BitLenInt(n) == IF n = 0 THEN 0 ELSE 1 + BitLenInt(n \div 2)

BitLen(a) == IF a = <<>> THEN 0 ELSE LimbBits * (Len(a) - 1) + BitLenInt(a[Len(a)])

Pow2(n) == Shl(<<1>>, n)

IsOdd(a) == a # <<>> /\ a[1] % 2 = 1

Max2(x, y) == IF x >= y THEN x ELSE y
Min2(x, y) == IF x <= y THEN x ELSE y

(***************************************************************************)
(* u64: u64::MAX, leading_zeros, saturating_add.                           *)
(***************************************************************************)
U64_MAX == Sub(Pow2(64), <<1>>)

IsU64(a) == Le(a, U64_MAX)

leading_zeros64(a) == 64 - BitLen(a)

leading_zeros32(n) == 32 - BitLenInt(n)

\* addition that wraps modulo 2^64 instead of clamping
wrapping_add(a, b) == LowBits(Add(a, b), 64)

saturating_add(a, b) == LET s == Add(a, b) IN IF Le(s, U64_MAX) THEN s ELSE U64_MAX

(***************************************************************************)
(* f64 (non-negative, finite): [m, e] is m * 2^e.                          *)
(***************************************************************************)
F64_MANTISSA_DIGITS == 53

\* m * 2^e (plus a non-zero fraction of the last place when sticky) rounded
\* to 53 significant bits, to nearest, ties to even.
RoundF64(m, e, sticky) ==
    LET n == BitLen(m)
        d == n - F64_MANTISSA_DIGITS
    IN  IF d <= 0 THEN [m |-> m, e |-> e]
        ELSE LET keep == Shr(m, d)
                 low  == LowBits(m, d)
                 half == Pow2(d - 1)
                 c    == Cmp(low, half)
                 up   == c > 0 \/ (c = 0 /\ (sticky \/ IsOdd(keep)))
             IN  [m |-> IF up THEN Add(keep, <<1>>) ELSE keep, e |-> e + d]

F64Int(n) == [m |-> BN(n), e |-> 0]

\* `x as f64` for a u64 x
F64FromU64(a) == RoundF64(a, 0, FALSE)

\* 2.0_f64.powi(k), k >= 0
powi2(k) == [m |-> <<1>>, e |-> k]

\* the mantissas of x and y over their common (smaller) exponent
AlignedM(x, y) == Shl(x.m, x.e - Min2(x.e, y.e))

FCmp(x, y) == Cmp(AlignedM(x, y), AlignedM(y, x))

FAdd(x, y) == RoundF64(Add(AlignedM(x, y), AlignedM(y, x)), Min2(x.e, y.e), FALSE)

\* x - y for x >= y
FSub(x, y) == RoundF64(Sub(AlignedM(x, y), AlignedM(y, x)), Min2(x.e, y.e), FALSE)

FMul(x, y) == RoundF64(Mul(x.m, y.m), x.e + y.e, FALSE)

\* the odd part of a positive f64's mantissa and the matching exponent
RECURSIVE OddPart(_, _)
OddPart(m, e) == IF IsOdd(m) THEN [m |-> m, e |-> e] ELSE OddPart(Shr(m, 1), e + 1)

\* x / y for y > 0 whose odd mantissa part is below 2^15 (every divisor the
\* crate uses here: buckets_inner, 100.0 and powers of two)
FDiv(x, y) ==
    IF x.m = <<>> THEN [m |-> <<>>, e |-> 0]
    ELSE LET d     == OddPart(y.m, y.e)
             k     == ToInt(d.m)
             shift == Max2(0, F64_MANTISSA_DIGITS + 3 + BitLenInt(k) - BitLen(x.m))
             qr    == DivSmall(Shl(x.m, shift), k)
         IN  RoundF64(qr.q, x.e - shift - d.e, qr.r # 0)

\* x.floor() and x.ceil() as natural numbers
FFloor(x) == IF x.e >= 0 THEN Shl(x.m, x.e) ELSE Shr(x.m, -x.e)

FCeil(x) == IF x.e >= 0 THEN Shl(x.m, x.e)
            ELSE IF LowBits(x.m, -x.e) = <<>> THEN Shr(x.m, -x.e)
            ELSE Add(Shr(x.m, -x.e), <<1>>)

\* `x as u64` for an integral f64 given as a natural: the cast saturates
AsU64(a) == IF Le(a, U64_MAX) THEN a ELSE U64_MAX

(***************************************************************************)
(* HistogramConfig and Histogram::configured.                              *)
(***************************************************************************)
DEFAULT_PRECISION == 3
DEFAULT_MAX_MEMORY == 0
DEFAULT_RADIX == 10

\* mem::size_of::<HistogramBucket>(): three u64 fields
SIZE_OF_BUCKET == 24

HistogramConfig(precision, max_memory, max_value) ==
    [precision |-> precision, max_memory |-> max_memory,
     max_value |-> max_value, radix |-> DEFAULT_RADIX]

HistogramCounters ==
    [entries_total |-> <<>>, missed_unknown |-> <<>>,
     missed_small |-> <<>>, missed_large |-> <<>>]

None == [some |-> FALSE]
Some(v) == [some |-> TRUE, v |-> v]

configured(config) ==
    LET buckets_inner   == config.radix ^ config.precision
        linear_power    == 32 - leading_zeros32(buckets_inner)
        linear_max      == ToInt(AsU64(FFloor(powi2(linear_power)))) - 1
        max_value_power == 64 - leading_zeros64(config.max_value)
        buckets_outer   == IF max_value_power > linear_power
                           THEN max_value_power - linear_power ELSE 0
        buckets_total   == buckets_inner * buckets_outer + linear_max
        memory_used     == buckets_total * SIZE_OF_BUCKET
    IN  IF config.max_memory > 0 /\ config.max_memory < memory_used
        THEN None
        ELSE Some([config |-> config,
                   data |-> [data |-> [i \in 0..(buckets_total - 1) |-> <<>>],
                             counters |-> HistogramCounters,
                             iterator |-> 0],
                   properties |-> [buckets_inner |-> buckets_inner,
                                   buckets_outer |-> buckets_outer,
                                   buckets_total |-> buckets_total,
                                   memory_used   |-> memory_used,
                                   linear_max    |-> linear_max,
                                   linear_power  |-> linear_power]])

buckets_total(h) == h.properties.buckets_total

entries(h) == h.data.counters.entries_total

(***************************************************************************)
(* The value <-> index mapping.                                            *)
(***************************************************************************)
\* the linear region: `(value - 1) as usize`
get_index_linear_off(value) == ToInt(value)

get_index_linear(value) == ToInt(value) - 1

\* the logarithmic region, value > linear_max
get_index_log(h, value) ==
    LET l_max   == h.properties.linear_max
        outer   == 63 - leading_zeros64(value)
        l_power == 64 - leading_zeros64(BN(h.properties.linear_max))
        remain  == FSub(F64FromU64(value), powi2(outer))
        inner   == ToInt(FFloor(FDiv(FMul(F64Int(h.properties.buckets_inner), remain),
                                     powi2(outer))))
        shifted == outer - l_power
    IN  l_max + h.properties.buckets_inner * shifted + inner

get_index(h, value) ==
    IF Le(<<1>>, value)
    THEN IF Le(value, BN(h.properties.linear_max))
         THEN Some(get_index_linear(value))
         ELSE Some(get_index_log(h, value))
    ELSE None

\* the linear region: `(index + 1) as u64`
index_value_linear(index) == BN(index + 1)

\* the logarithmic region, index >= linear_max
index_value_log(h, index) ==
    LET log_index == index - h.properties.linear_max
        outer == ToInt(FFloor(FDiv(F64Int(log_index), F64Int(h.properties.buckets_inner))))
        inner == log_index - outer * h.properties.buckets_inner
        base  == powi2(outer + h.properties.linear_power)
        value == FAdd(base, FMul(F64Int(inner),
                                 FDiv(base, F64Int(h.properties.buckets_inner))))
    IN  AsU64(FCeil(value))

index_value(h, index) ==
    IF index < h.properties.linear_max
    THEN index_value_linear(index)
    ELSE index_value_log(h, index)

(***************************************************************************)
(* Results.  A Rust panic (an index out of bounds, an arithmetic overflow  *)
(* in a build with overflow checks) unwinds out of the operation.          *)
(***************************************************************************)
Unit == "()"
Ok(v) == [kind |-> "Ok", v |-> v]
Err(msg) == [kind |-> "Err", v |-> msg]
Panic(msg) == [kind |-> "Panic", v |-> msg]

InBounds(h, index) == index \in DOMAIN h.data.data

(***************************************************************************)
(* Histogram::clear, record, increment, get.                               *)
(***************************************************************************)
\* clear that resets the counters and leaves the buckets
clear_counters_only(h) ==
    [h |-> [h EXCEPT !.data.counters = HistogramCounters], ret |-> Ok(Unit)]

clear(h) ==
    [h |-> [h EXCEPT !.data.counters = HistogramCounters,
                     !.data.data = [i \in DOMAIN h.data.data |-> <<>>]],
     ret |-> Ok(Unit)]

\* the last arm of record: the value is within [1, max_value]
record_in_range(h1, value, count) ==
    CHOOSE out \in {
        IF r.some
        THEN IF InBounds(h1, r.v)
             THEN [h |-> [h1 EXCEPT !.data.data[r.v] = saturating_add(@, count)],
                   ret |-> Ok(Unit)]
             ELSE [h |-> h1, ret |-> Panic("index out of bounds")]
        ELSE [h |-> [h1 EXCEPT !.data.counters.missed_unknown = saturating_add(@, count)],
              ret |-> Err("sample unknown error")]
        : r \in {get_index(h1, value)} } : TRUE

\* record without its `value < 1` arm
record_no_small_arm(h, value, count) ==
    LET h1 == [h EXCEPT !.data.counters.entries_total = saturating_add(@, count)]
    IN  IF Lt(h1.config.max_value, value)
        THEN [h |-> [h1 EXCEPT !.data.counters.missed_large = saturating_add(@, count)],
              ret |-> Err("sample value too large")]
        ELSE record_in_range(h1, value, count)

record(h, value, count) ==
    LET h1 == [h EXCEPT !.data.counters.entries_total = saturating_add(@, count)]
    IN  IF Lt(value, <<1>>)
        THEN [h |-> [h1 EXCEPT !.data.counters.missed_small = saturating_add(@, count)],
              ret |-> Err("sample value too small")]
        ELSE IF Lt(h1.config.max_value, value)
        THEN [h |-> [h1 EXCEPT !.data.counters.missed_large = saturating_add(@, count)],
              ret |-> Err("sample value too large")]
        ELSE record_in_range(h1, value, count)

increment(h, value) == record(h, value, <<1>>)

get(h, value) ==
    CHOOSE out \in {
        IF r.some
        THEN IF InBounds(h, r.v) THEN Ok(Some(h.data.data[r.v]))
                                 ELSE Panic("index out of bounds")
        ELSE Ok(None)
        : r \in {get_index(h, value)} } : TRUE

(***************************************************************************)
(* Histogram::percentile.  `checks` says whether the build carries         *)
(* overflow checks: `have + count` then panics on overflow, and wraps      *)
(* modulo 2^64 otherwise.                                                  *)
(***************************************************************************)
\* one pass through the body of the loop; st.ret is None while the loop goes on
percentile_body(h, st, step, need, checks) ==
    CHOOSE out \in {
        IF checks /\ ~IsU64(sum)
        THEN [st EXCEPT !.ret = Some(Panic("attempt to add with overflow"))]
        ELSE CHOOSE out1 \in {
                 IF Le(need, have1)
                 THEN [st EXCEPT !.have = have1, !.ret = Some(Ok(index_value(h, st.index)))]
                 ELSE IF index1 >= buckets_total(h) \/ index1 < 0
                 THEN [index |-> index1, have |-> have1, ret |-> Some(Err("unknown failure"))]
                 ELSE [index |-> index1, have |-> have1, ret |-> None]
                 : have1 \in {LowBits(sum, 64)}, index1 \in {st.index + step} } : TRUE
        : sum \in {Add(st.have, h.data.data[st.index])} } : TRUE

\* at most k passes through the loop, the second half after the first
RECURSIVE percentile_loop(_, _, _, _, _, _)
percentile_loop(h, st, step, need, checks, k) ==
    IF st.ret.some \/ k = 0 THEN st
    ELSE IF k = 1 THEN percentile_body(h, st, step, need, checks)
    ELSE CHOOSE out \in {
             percentile_loop(h, half, step, need, checks, k - (k \div 2))
             : half \in {percentile_loop(h, st, step, need, checks, k \div 2)} } : TRUE

percentile(h, p, checks) ==
    IF Lt(entries(h), <<1>>) THEN Err("no data")
    ELSE IF FCmp(p, F64Int(100)) <= 0 /\ FCmp(p, F64Int(0)) >= 0
    THEN CHOOSE out \in {
             LET total == entries(h)
                 need1 == IF Lt(total, need0) THEN total ELSE need0
                 need2 == Sub(total, need1)
                 index == IF low THEN 0 ELSE buckets_total(h) - 1
                 step  == IF low THEN 1 ELSE -1
                 need3 == IF low THEN Sub(total, need2) ELSE need2
                 have  == IF low THEN h.data.counters.missed_small
                                 ELSE h.data.counters.missed_large
             IN  CHOOSE out1 \in {
                     IF Le(need, have)
                     THEN (IF index = 0 THEN Err("underflow") ELSE Err("overflow"))
                     ELSE percentile_loop(h, [index |-> index, have |-> have, ret |-> None],
                                          step, need, checks, buckets_total(h)).ret.v
                     : need \in {IF need3 = <<>> THEN <<1>> ELSE need3} } : TRUE
             : need0 \in {AsU64(FCeil(FMul(F64FromU64(entries(h)), FDiv(p, F64Int(100)))))},
               low \in {FCmp(p, F64Int(50)) < 0} } : TRUE
    ELSE Err("unknown failure")

minimum(h, checks) == percentile(h, F64Int(0), checks)

maximum(h, checks) == percentile(h, F64Int(100), checks)

(***************************************************************************)
(* impl Iterator for Histogram: next, and Histogram::merge, which drains   *)
(* the other histogram's iterator.                                         *)
(***************************************************************************)
HistogramBucket(id, value, count) == [id |-> id, value |-> value, count |-> count]

\* next that leaves the cursor where it is at the end of the sequence
next_no_reset(h) ==
    LET current == h.data.iterator
    IN  IF current = buckets_total(h)
        THEN [h |-> h, ret |-> Ok(None)]
        ELSE [h |-> [h EXCEPT !.data.iterator = current + 1],
              ret |-> Ok(Some(HistogramBucket(current, index_value(h, current),
                                              h.data.data[current])))]

next(h) ==
    LET current == h.data.iterator
    IN  IF current = buckets_total(h)
        THEN [h |-> [h EXCEPT !.data.iterator = 0], ret |-> Ok(None)]
        ELSE IF InBounds(h, current)
        THEN [h |-> [h EXCEPT !.data.iterator = current + 1],
              ret |-> Ok(Some(HistogramBucket(current, index_value(h, current),
                                              h.data.data[current])))]
        ELSE [h |-> [h EXCEPT !.data.iterator = current + 1],
              ret |-> Panic("index out of bounds")]

\* one pass through `for bucket in other`; st.ret is None while the loop goes on
merge_body(st) ==
    CHOOSE out \in {
        IF n.ret.kind = "Panic"
        THEN [self |-> st.self, other |-> n.h, ret |-> Some(n.ret)]
        ELSE IF ~n.ret.v.some
        THEN [self |-> st.self, other |-> n.h, ret |-> Some(Ok(Unit))]
        ELSE CHOOSE out1 \in {
                 [self |-> r.h, other |-> n.h,
                  ret |-> IF r.ret.kind = "Panic" THEN Some(r.ret) ELSE None]
                 : r \in {record(st.self, n.ret.v.v.value, n.ret.v.v.count)} } : TRUE
        : n \in {next(st.other)} } : TRUE

\* at most k passes through the loop, the second half after the first
RECURSIVE merge_loop(_, _)
merge_loop(st, k) ==
    IF st.ret.some \/ k = 0 THEN st
    ELSE IF k = 1 THEN merge_body(st)
    ELSE CHOOSE out \in {
             merge_loop(half, k - (k \div 2)) : half \in {merge_loop(st, k \div 2)} } : TRUE

merge(self, other) ==
    CHOOSE out \in {
        [self |-> st.self, other |-> st.other, ret |-> st.ret.v]
        : st \in {merge_loop([self |-> self, other |-> other, ret |-> None],
                             buckets_total(other) + 1)} } : TRUE

(***************************************************************************)
(* The state: two histograms (merge needs a second one), the build's       *)
(* overflow-check setting, and what the last operation was, on which       *)
(* histograms it found them and what it returned.                          *)
(***************************************************************************)
VARIABLES
    hist,       \* name -> Histogram
    checks,     \* whether the build has overflow checks (debug) or not (release)
    pre,        \* hist before the last operation
    last,       \* the last operation: its name, receiver, arguments and result
    since,      \* per counter, the exact sum of the counts recorded since new/clear
    nops        \* how many mutating operations ran

vars == <<hist, checks, pre, last, since, nops>>

Names == {"a", "b"}

Other(n) == IF n = "a" THEN "b" ELSE "a"

\* bound of the exploration: the number of operations in a run
MaxOps == 3

Op(op, self, value, count, p, ret) ==
    [op |-> op, self |-> self, value |-> value, count |-> count, p |-> p, ret |-> ret]

Live == last.ret.kind # "Panic"

(***************************************************************************)
(* Bookkeeping of what was recorded: the counter that the documented rules *)
(* of record name for a sample, and the exact (unbounded) sums per counter.*)
(***************************************************************************)
ZeroSums(h) ==
    [entries_total |-> <<>>, missed_unknown |-> <<>>, missed_small |-> <<>>,
     missed_large |-> <<>>, data |-> [i \in DOMAIN h.data.data |-> <<>>]]

SumRecord(g, h, value, count) ==
    LET g1 == [g EXCEPT !.entries_total = Add(@, count)]
    IN  IF Lt(value, <<1>>) THEN [g1 EXCEPT !.missed_small = Add(@, count)]
        ELSE IF Lt(h.config.max_value, value) THEN [g1 EXCEPT !.missed_large = Add(@, count)]
        ELSE LET r == get_index(h, value)
             IN  IF ~r.some THEN [g1 EXCEPT !.missed_unknown = Add(@, count)]
                 ELSE IF InBounds(h, r.v) THEN [g1 EXCEPT !.data[r.v] = Add(@, count)]
                 ELSE g1

\* the buckets a traversal of h yields from its cursor up to index upto
Remaining(h, upto) ==
    [k \in 1..(upto + 1 - h.data.iterator) |->
        LET i == h.data.iterator + k - 1
        IN  HistogramBucket(i, index_value(h, i), h.data.data[i])]

\* the exact sums after recording items[lo..hi]
RECURSIVE SumBuckets(_, _, _, _, _)
SumBuckets(g, h, items, lo, hi) ==
    IF lo > hi THEN g
    ELSE IF lo = hi THEN SumRecord(g, h, items[lo].value, items[lo].count)
    ELSE CHOOSE out \in {
             SumBuckets(g1, h, items, ((lo + hi) \div 2) + 1, hi)
             : g1 \in {SumBuckets(g, h, items, lo, (lo + hi) \div 2)} } : TRUE

(***************************************************************************)
(* The operations.                                                         *)
(***************************************************************************)
InitOf(ConfigsA, ConfigsB, Builds) ==
    /\ \E ca \in ConfigsA, cb \in ConfigsB :
          hist = [n \in Names |-> IF n = "a" THEN configured(ca).v ELSE configured(cb).v]
    /\ checks \in Builds
    /\ pre = hist
    /\ last = Op("new", "a", <<>>, <<>>, 0, Ok(Unit))
    /\ since = [n \in Names |-> ZeroSums(hist[n])]
    /\ nops = 0

Record(n, value, count) ==
    /\ Live /\ nops < MaxOps
    /\ \E r \in {record(hist[n], value, count)} :
           /\ hist' = [hist EXCEPT ![n] = r.h]
           /\ last' = Op("record", n, value, count, 0, r.ret)
    /\ since' = [since EXCEPT ![n] = SumRecord(@, hist[n], value, count)]
    /\ pre' = hist
    /\ nops' = nops + 1
    /\ UNCHANGED checks

Increment(n, value) ==
    /\ Live /\ nops < MaxOps
    /\ \E r \in {increment(hist[n], value)} :
           /\ hist' = [hist EXCEPT ![n] = r.h]
           /\ last' = Op("increment", n, value, <<1>>, 0, r.ret)
    /\ since' = [since EXCEPT ![n] = SumRecord(@, hist[n], value, <<1>>)]
    /\ pre' = hist
    /\ nops' = nops + 1
    /\ UNCHANGED checks

Clear(n) ==
    /\ Live /\ nops < MaxOps
    /\ \E r \in {clear(hist[n])} :
           /\ hist' = [hist EXCEPT ![n] = r.h]
           /\ last' = Op("clear", n, <<>>, <<>>, 0, r.ret)
    /\ since' = [since EXCEPT ![n] = ZeroSums(hist[n])]
    /\ pre' = hist
    /\ nops' = nops + 1
    /\ UNCHANGED checks

NextBucket(n) ==
    /\ Live /\ nops < MaxOps
    /\ \E r \in {next(hist[n])} :
           /\ hist' = [hist EXCEPT ![n] = r.h]
           /\ last' = Op("next", n, <<>>, <<>>, 0, r.ret)
    /\ pre' = hist
    /\ nops' = nops + 1
    /\ UNCHANGED <<checks, since>>

Merge(n) ==
    /\ Live /\ nops < MaxOps
    /\ \E r \in {merge(hist[n], hist[Other(n)])} :
          /\ hist' = [hist EXCEPT ![n] = r.self, ![Other(n)] = r.other]
          /\ last' = Op("merge", n, <<>>, <<>>, 0, r.ret)
          /\ \E items \in {Remaining(hist[Other(n)],
                                     IF r.ret.kind = "Panic" THEN r.other.data.iterator - 1
                                     ELSE buckets_total(hist[Other(n)]) - 1)} :
                since' = [since EXCEPT ![n] = SumBuckets(@, hist[n], items, 1, Len(items))]
    /\ pre' = hist
    /\ nops' = nops + 1
    /\ UNCHANGED checks

Get(n, value) ==
    /\ Live /\ nops < MaxOps
    /\ last' = Op("get", n, value, <<>>, 0, get(hist[n], value))
    /\ pre' = hist
    /\ nops' = nops + 1
    /\ UNCHANGED <<hist, checks, since>>

Percentile(n, p) ==
    /\ Live /\ nops < MaxOps
    /\ last' = Op("percentile", n, <<>>, <<>>, p, percentile(hist[n], F64Int(p), checks))
    /\ pre' = hist
    /\ nops' = nops + 1
    /\ UNCHANGED <<hist, checks, since>>

NextOf(V, C, P) ==
    \/ \E n \in Names, value \in V, count \in C : Record(n, value, count)
    \/ \E n \in Names, value \in V : Increment(n, value)
    \/ \E n \in Names : Clear(n)
    \/ \E n \in Names : NextBucket(n)
    \/ \E n \in Names : Merge(n)
    \/ \E n \in Names, value \in V : Get(n, value)
    \/ \E n \in Names, p \in P : Percentile(n, p)

(***************************************************************************)
(* Spec: two histograms over max_value = 5, precision = 0 (three buckets:  *)
(* 1, 2..3, 4..7), a debug build, every operation.                         *)
(***************************************************************************)
Small == HistogramConfig(0, 0, BN(5))
Values == {BN(0), BN(1), BN(4), BN(6)}
Counts == {BN(2)}
Percentiles == {0, 50, 100}

Init == InitOf({Small}, {Small}, {TRUE})

Next == NextOf(Values, Counts, Percentiles)

Spec == Init /\ [][Next]_vars

(***************************************************************************)
(* SpecIndex: the value <-> index mapping on its own (the crate's tests    *)
(* call get_index and index_value directly).  Configurations range over    *)
(* precisions 0..MaxPrecision and over small and very large max_value;     *)
(* sample values over 0..MaxProbe and over values beyond 2^53, where       *)
(* `value as f64` rounds.                                                  *)
(***************************************************************************)
MaxPrecision == 1
MaxProbe == 40

WideValues == {Add(Pow2(53), <<1>>), Sub(Pow2(54), <<1>>), Pow2(54), Pow2(63), U64_MAX}

IndexConfigs ==
    {HistogramConfig(precision, 0, max_value) :
        precision \in 0..MaxPrecision,
        max_value \in {BN(0), BN(1), BN(5), BN(MaxProbe), Pow2(54), U64_MAX}}

\* bucket indices in the octaves 2^51 and above of a precision 1 histogram
WideIndexes == {488, 489, 497, 524}

ProbeValues == {BN(v) : v \in 0..MaxProbe} \cup WideValues

InitIndex == InitOf(IndexConfigs, {Small}, {TRUE})

GetIndex(value) ==
    /\ last' = Op("get_index", "a", value, <<>>, 0, Ok(get_index(hist["a"], value)))
    /\ pre' = hist
    /\ UNCHANGED <<hist, checks, since, nops>>

IndexValue(index) ==
    /\ last' = Op("index_value", "a", BN(index), <<>>, 0, Ok(index_value(hist["a"], index)))
    /\ pre' = hist
    /\ UNCHANGED <<hist, checks, since, nops>>

NextIndex ==
    \/ \E value \in ProbeValues : GetIndex(value)
    \/ \E index \in (0..Min2(buckets_total(hist["a"]) - 1, MaxProbe))
                       \cup {i \in WideIndexes : i < buckets_total(hist["a"])} :
          IndexValue(index)

SpecIndex == InitIndex /\ [][NextIndex]_vars

(***************************************************************************)
(* C1: for every value v with 1 <= v <= linear_max, get_index(v) is v - 1  *)
(* and index_value(v - 1) is v: the linear region round-trips exactly.     *)
(***************************************************************************)
InLinear(h, value) == Le(<<1>>, value) /\ Le(value, BN(h.properties.linear_max))

C1_LinearRoundTrip ==
    (last.op = "get_index" /\ InLinear(hist["a"], last.value))
        => /\ last.ret.v = Some(ToInt(last.value) - 1)
           /\ index_value(hist["a"], ToInt(last.value) - 1) = last.value

C1_Witness ==
    /\ last.op = "get_index"
    /\ hist["a"].properties.linear_max = 15
    /\ last.value = BN(15)
    /\ last.ret.v = Some(14)

(***************************************************************************)
(* C2 (as claimed): for every value v with linear_max < v <= max_value,    *)
(* index_value(get_index(v)) lies in v's octave [2^outer, 2^(outer+1)),    *)
(* outer = floor(log2 v), and differs from v by at most                    *)
(* ceil(2^outer / buckets_inner).                                          *)
(***************************************************************************)
InLog(h, value) == Lt(BN(h.properties.linear_max), value) /\ Le(value, h.config.max_value)

AbsDiff(a, b) == IF Le(a, b) THEN Sub(b, a) ELSE Sub(a, b)

CeilDiv(a, k) == DivSmall(Add(a, BN(k - 1)), k).q

SameOctave(value, r) ==
    LET outer == BitLen(value) - 1
    IN  Le(Pow2(outer), r) /\ Lt(r, Pow2(outer + 1))

WithinResolution(h, value, r) ==
    Le(AbsDiff(r, value), CeilDiv(Pow2(BitLen(value) - 1), h.properties.buckets_inner))

C2_LogRoundTrip ==
    (last.op = "get_index" /\ InLog(hist["a"], last.value))
        => LET r == index_value(hist["a"], last.ret.v.v)
           IN  SameOctave(last.value, r) /\ WithinResolution(hist["a"], last.value, r)

(***************************************************************************)
(* SpecSaturation: the same two histograms and operations with counts      *)
(* large enough to drive the counters to u64::MAX.                         *)
(***************************************************************************)
SaturationValues == {BN(0), BN(1), BN(6)}
SaturationCounts == {Pow2(62), U64_MAX}
SaturationPercentiles == {50}

NextSaturation == NextOf(SaturationValues, SaturationCounts, SaturationPercentiles)

SpecSaturation == Init /\ [][NextSaturation]_vars

(***************************************************************************)
(* C3: record(value, count) always adds count to entries_total (the        *)
(* counters saturate).  If value < 1 it adds count to missed_small and     *)
(* fails with "sample value too small"; if value > max_value it adds count *)
(* to missed_large and fails with "sample value too large"; in both cases  *)
(* every bucket counter and the other missed counters stay as they were.   *)
(***************************************************************************)
IsRecord == last.op \in {"record", "increment"}

ClampU64(a) == IF Lt(U64_MAX, a) THEN U64_MAX ELSE a

Before == pre[last.self]
After == hist[last.self]

C3_RecordFailures ==
    IsRecord =>
        LET c0 == Before.data.counters
            c1 == After.data.counters
        IN  /\ c1.entries_total = ClampU64(Add(c0.entries_total, last.count))
            /\ Lt(last.value, <<1>>) =>
                  /\ last.ret = Err("sample value too small")
                  /\ c1.missed_small = ClampU64(Add(c0.missed_small, last.count))
                  /\ c1.missed_large = c0.missed_large
                  /\ c1.missed_unknown = c0.missed_unknown
                  /\ After.data.data = Before.data.data
            /\ Lt(After.config.max_value, last.value) =>
                  /\ last.ret = Err("sample value too large")
                  /\ c1.missed_large = ClampU64(Add(c0.missed_large, last.count))
                  /\ c1.missed_small = c0.missed_small
                  /\ c1.missed_unknown = c0.missed_unknown
                  /\ After.data.data = Before.data.data

\* a too-small record on top of earlier records, into a saturated total
C3_Witness ==
    /\ last.op = "record"
    /\ last.value = <<>>
    /\ last.ret = Err("sample value too small")
    /\ Before.data.counters.missed_large # <<>>
    /\ Before.data.data[0] # <<>>
    /\ After.data.counters.missed_small = last.count
    /\ After.data.counters.entries_total = U64_MAX

(***************************************************************************)
(* SpecWide: histogram "a" covers the whole u64 range (precision 0,        *)
(* max_value = u64::MAX, 64 buckets) and takes values up to u64::MAX;      *)
(* histogram "b" is the small one.                                         *)
(***************************************************************************)
Wide == HistogramConfig(0, 0, U64_MAX)
WideRecordValues == {BN(1), Sub(Pow2(54), <<1>>), U64_MAX}
WideCounts == {BN(1)}
WidePercentiles == {100}

InitWide == InitOf({Wide}, {Small}, {TRUE})

NextWide == NextOf(WideRecordValues, WideCounts, WidePercentiles)

SpecWide == InitWide /\ [][NextWide]_vars

(***************************************************************************)
(* C4: record(value, count) with 1 <= value <= max_value succeeds and      *)
(* adds count (saturating) to exactly the bucket counter at                *)
(* get_index(value); the other bucket counters, the missed counters and    *)
(* the traversal cursor are unchanged.  Hence get(v) is the saturating sum *)
(* of the counts recorded into v's bucket (0 if there were none).          *)
(***************************************************************************)
InRange(h, value) == Le(<<1>>, value) /\ Le(value, h.config.max_value)

C4_RecordInRange ==
    /\ (IsRecord /\ InRange(Before, last.value)) =>
          LET r == get_index(Before, last.value)
          IN  /\ last.ret = Ok(Unit)
              /\ r.some
              /\ r.v \in DOMAIN Before.data.data
              /\ After.data.data =
                    [Before.data.data EXCEPT ![r.v] = ClampU64(Add(@, last.count))]
              /\ After.data.counters.missed_small = Before.data.counters.missed_small
              /\ After.data.counters.missed_large = Before.data.counters.missed_large
              /\ After.data.counters.missed_unknown = Before.data.counters.missed_unknown
              /\ After.data.iterator = Before.data.iterator
    /\ (last.op = "get" /\ InRange(Before, last.value)) =>
          LET r == get_index(Before, last.value)
          IN  /\ r.some
              /\ r.v \in DOMAIN Before.data.data
              /\ last.ret = Ok(Some(ClampU64(since[last.self].data[r.v])))

(***************************************************************************)
(* C5: after any sequence of record/increment/merge calls every counter    *)
(* (entries_total, the three missed counters, every bucket) equals         *)
(* min(2^64 - 1, the exact sum of the counts added to it).                 *)
(***************************************************************************)
C5_CountersSaturate ==
    \A n \in Names :
        LET c == hist[n].data.counters
            g == since[n]
        IN  /\ c.entries_total = ClampU64(g.entries_total)
            /\ c.missed_small = ClampU64(g.missed_small)
            /\ c.missed_large = ClampU64(g.missed_large)
            /\ c.missed_unknown = ClampU64(g.missed_unknown)
            /\ \A i \in DOMAIN hist[n].data.data :
                  hist[n].data.data[i] = ClampU64(g.data[i])

\* a merge drove a bucket and the total past u64::MAX, a record a missed counter
C5_Witness ==
    /\ last.op = "merge"
    /\ Lt(U64_MAX, since[last.self].data[0])
    /\ After.data.data[0] = U64_MAX
    /\ Lt(U64_MAX, since[last.self].entries_total)
    /\ After.data.counters.entries_total = U64_MAX
    /\ Before.data.data[0] # U64_MAX

(***************************************************************************)
(* C6: in every reachable state in which no counter has saturated,         *)
(* entries_total = sum of all bucket counters + missed_small +             *)
(* missed_large + missed_unknown.                                          *)
(***************************************************************************)
\* the exact sum of the bucket counters lo..hi
RECURSIVE SumData(_, _, _)
SumData(h, lo, hi) ==
    IF lo > hi THEN <<>>
    ELSE IF lo = hi THEN h.data.data[lo]
    ELSE Add(SumData(h, lo, (lo + hi) \div 2), SumData(h, ((lo + hi) \div 2) + 1, hi))

NoneSaturated(h) ==
    /\ h.data.counters.entries_total # U64_MAX
    /\ h.data.counters.missed_small # U64_MAX
    /\ h.data.counters.missed_large # U64_MAX
    /\ h.data.counters.missed_unknown # U64_MAX
    /\ \A i \in DOMAIN h.data.data : h.data.data[i] # U64_MAX

C6_TotalIsSum ==
    \A n \in Names :
        NoneSaturated(hist[n]) =>
            hist[n].data.counters.entries_total =
                Add(SumData(hist[n], 0, buckets_total(hist[n]) - 1),
                    Add(hist[n].data.counters.missed_small,
                        Add(hist[n].data.counters.missed_large,
                            hist[n].data.counters.missed_unknown)))

(***************************************************************************)
(* SpecRank: the two small histograms with counts 7 and 18 on the values   *)
(* 1 and 3 (buckets 0 and 1), and the percentiles 0, 28, 50 and 100.       *)
(***************************************************************************)
RankValues == {BN(1), BN(3)}
RankCounts == {BN(7), BN(18)}
RankPercentiles == {0, 28, 50, 100}

NextRank == NextOf(RankValues, RankCounts, RankPercentiles)

SpecRank == Init /\ [][NextRank]_vars

(***************************************************************************)
(* C7: with entries_total = T > 0, no missed samples, p in [0, 100] and    *)
(* r = min(T, ceil(T * p / 100)): for p < 50 percentile(p) is the          *)
(* representative of the bucket holding the k-th smallest sample,          *)
(* k = max(1, r); for p >= 50 that of the bucket holding the k-th largest  *)
(* sample, k = max(1, T - r).                                              *)
(***************************************************************************)
NoMissed(h) ==
    /\ h.data.counters.missed_small = <<>>
    /\ h.data.counters.missed_large = <<>>
    /\ h.data.counters.missed_unknown = <<>>

\* the bucket of the k-th smallest sample
RankSmallest(h, k) ==
    CHOOSE i \in DOMAIN h.data.data :
        /\ Le(k, SumData(h, 0, i))
        /\ \A j \in DOMAIN h.data.data : j < i => Lt(SumData(h, 0, j), k)

\* the bucket of the k-th largest sample
RankLargest(h, k) ==
    CHOOSE i \in DOMAIN h.data.data :
        /\ Le(k, SumData(h, i, buckets_total(h) - 1))
        /\ \A j \in DOMAIN h.data.data :
              j > i => Lt(SumData(h, j, buckets_total(h) - 1), k)

C7_PercentileRank ==
    (/\ last.op = "percentile"
     /\ After.data.counters.entries_total # <<>>
     /\ NoMissed(After)) =>
        LET T == After.data.counters.entries_total
            exact == CeilDiv(MulSmall(T, last.p), 100)
            r == IF Lt(T, exact) THEN T ELSE exact
            k == IF last.p < 50 THEN r ELSE Sub(T, r)
            k1 == IF k = <<>> THEN <<1>> ELSE k
        IN  last.ret = Ok(index_value(After,
                             IF last.p < 50 THEN RankSmallest(After, k1)
                                            ELSE RankLargest(After, k1)))

(***************************************************************************)
(* C8: in every reachable state with entries_total > 0 and for every p in  *)
(* [0, 100], percentile(p) returns a value, or fails with "underflow"      *)
(* (p < 50) or "overflow" (p >= 50); it never returns the generic          *)
(* "unknown failure".                                                      *)
(***************************************************************************)
C8_PercentileOutcome ==
    (/\ last.op = "percentile"
     /\ After.data.counters.entries_total # <<>>
     /\ last.p \in 0..100) =>
        \/ last.ret.kind = "Ok"
        \/ last.p < 50 /\ last.ret = Err("underflow")
        \/ last.p >= 50 /\ last.ret = Err("overflow")

(***************************************************************************)
(* C9: for histograms in any reachable states in which every recorded      *)
(* value was in range for both configurations and no counter saturates,    *)
(* after a.merge(b) the value of a.entries() is the sum of a.entries() and *)
(* b.entries() taken before the merge.                                     *)
(***************************************************************************)
C9_MergePreservesTotal ==
    (/\ last.op = "merge"
     /\ \A n \in Names : NoMissed(pre[n]) /\ NoneSaturated(hist[n])) =>
        entries(After) = Add(entries(Before), entries(pre[Other(last.self)]))

(***************************************************************************)
(* C10: clear() sets entries_total, the missed counters and every bucket   *)
(* counter to 0 and leaves buckets_total, the geometry and the length of   *)
(* the count array unchanged; the array length equals buckets_total in     *)
(* every reachable state.                                                  *)
(***************************************************************************)
C10_Clear ==
    /\ \A n \in Names :
          /\ DOMAIN hist[n].data.data = 0..(buckets_total(hist[n]) - 1)
          /\ Cardinality(DOMAIN hist[n].data.data) = hist[n].properties.buckets_total
    /\ last.op = "clear" =>
          /\ last.ret = Ok(Unit)
          /\ After.data.counters.entries_total = <<>>
          /\ After.data.counters.missed_small = <<>>
          /\ After.data.counters.missed_large = <<>>
          /\ After.data.counters.missed_unknown = <<>>
          /\ \A i \in DOMAIN After.data.data : After.data.data[i] = <<>>
          /\ After.properties = Before.properties
          /\ After.config = Before.config
          /\ DOMAIN After.data.data = DOMAIN Before.data.data

\* a clear of a histogram that held a bucket count and a missed count
C10_Witness ==
    /\ last.op = "clear"
    /\ \E i \in DOMAIN Before.data.data : Before.data.data[i] # <<>>
    /\ Before.data.counters.missed_large # <<>>
    /\ Before.data.counters.entries_total # <<>>
    /\ After.data.counters.entries_total = <<>>

(***************************************************************************)
(* SpecTraversal: histogram "a" has one bucket (max_value 1) or two        *)
(* (max_value 3), so that a whole traversal, its end and the restart fit   *)
(* into a run; histogram "b" is the small one.                             *)
(***************************************************************************)
OneBucket == HistogramConfig(0, 0, BN(1))
TwoBuckets == HistogramConfig(0, 0, BN(3))
TraversalValues == {BN(0), BN(1)}
TraversalCounts == {BN(2)}
TraversalPercentiles == {100}

InitTraversal == InitOf({OneBucket, TwoBuckets}, {Small}, {TRUE})

NextTraversal == NextOf(TraversalValues, TraversalCounts, TraversalPercentiles)

SpecTraversal == InitTraversal /\ [][NextTraversal]_vars

(***************************************************************************)
(* C11: a traversal starts at cursor 0 (fresh histogram, or after the      *)
(* end-of-sequence result); each next() with the cursor at id <            *)
(* buckets_total yields the bucket (id, index_value(id), current counter   *)
(* of id) and moves the cursor to id + 1; with the cursor at buckets_total *)
(* it yields the end of the sequence and resets the cursor to 0.  record   *)
(* and increment do not move the cursor, and the cursor always stays       *)
(* within 0..buckets_total.                                                *)
(***************************************************************************)
C11_Traversal ==
    /\ \A n \in Names : hist[n].data.iterator \in 0..buckets_total(hist[n])
    /\ last.op = "new" => \A n \in Names : hist[n].data.iterator = 0
    /\ IsRecord => After.data.iterator = Before.data.iterator
    /\ last.op = "next" =>
          LET id == Before.data.iterator
          IN  /\ After.data.data = Before.data.data
              /\ After.data.counters = Before.data.counters
              /\ IF id < buckets_total(Before)
                 THEN /\ last.ret = Ok(Some(HistogramBucket(id, index_value(Before, id),
                                                            Before.data.data[id])))
                      /\ After.data.iterator = id + 1
                 ELSE /\ last.ret = Ok(None)
                      /\ After.data.iterator = 0

\* the end of a traversal during which a value was recorded
C11_Witness ==
    /\ last.op = "next"
    /\ last.ret = Ok(None)
    /\ Before.data.iterator = buckets_total(Before)
    /\ After.data.iterator = 0
    /\ Before.data.data[0] # <<>>

(***************************************************************************)
(* C12: get(value) returns absent for every value < 1 and every value >    *)
(* max_value, and never reads the count array at an index >=               *)
(* buckets_total.                                                          *)
(***************************************************************************)
C12_GetOutOfRange ==
    last.op = "get" =>
        /\ last.ret.kind # "Panic"
        /\ ~InRange(Before, last.value) => last.ret = Ok(None)

(***************************************************************************)
(* C13: for two histograms of the same configuration, whatever was done to *)
(* them before, dst.merge(src) leaves in each dst bucket i the saturating  *)
(* sum of its previous count and the count of src's bucket i.              *)
(***************************************************************************)
C13_MergeCoversAll ==
    (/\ last.op = "merge"
     /\ Before.config = pre[Other(last.self)].config) =>
        \A i \in DOMAIN Before.data.data :
            After.data.data[i] =
                ClampU64(Add(Before.data.data[i], pre[Other(last.self)].data.data[i]))

(***************************************************************************)
(* C14: for every configuration and every bucket index i in                *)
(* 0..buckets_total - 1, get_index(index_value(i)) = i.                    *)
(***************************************************************************)
C14_IndexRoundTrip ==
    last.op = "index_value" =>
        get_index(Before, last.ret.v) = Some(ToInt(last.value))

(***************************************************************************)
(* C15: for every accepted configuration and every value with 1 <= value   *)
(* <= max_value, get_index(value) is an index in 0..buckets_total - 1;     *)
(* missed_unknown is 0 in every reachable state.                           *)
(***************************************************************************)
C15_IndexInRange ==
    /\ \A n \in Names : hist[n].data.counters.missed_unknown = <<>>
    /\ (last.op = "get_index" /\ InRange(Before, last.value)) =>
          /\ last.ret.v.some
          /\ last.ret.v.v \in 0..(buckets_total(Before) - 1)

(***************************************************************************)
(* SpecOverflow: the two small histograms with counts near u64::MAX, in a  *)
(* build with overflow checks and in one without.                          *)
(***************************************************************************)
OverflowValues == {BN(1), BN(6)}
OverflowCounts == {Pow2(62), U64_MAX}
OverflowPercentiles == {0, 50}

InitOverflow == InitOf({Small}, {Small}, BOOLEAN)

NextOverflow == NextOf(OverflowValues, OverflowCounts, OverflowPercentiles)

SpecOverflow == InitOverflow /\ [][NextOverflow]_vars

(***************************************************************************)
(* C16: in every reachable state, saturated counters included,             *)
(* percentile(p) for p in [0, 100] completes with a value or a typed       *)
(* failure: the running sum over the missed mass and the bucket counters   *)
(* never leaves the u64 range, so there is no overflow abort and, in a     *)
(* build without overflow checks, no wrapped sum (the result is the one    *)
(* the checked build computes).                                            *)
(***************************************************************************)
C16_PercentileNoOverflow ==
    (last.op = "percentile" /\ last.p \in 0..100) =>
        /\ last.ret.kind # "Panic"
        /\ percentile(Before, F64Int(last.p), TRUE).kind # "Panic"
====
